---------------------------- MODULE Spec2Model ----------------------------
(***************************************************************************)
(* A model of rs2048: the generic DataGrid container (data_grid/src/lib.rs), *)
(* the Board with its directional merges and random tile insertion          *)
(* (rs2048/src/board.rs), the Game transition function (rs2048/src/game.rs) *)
(* and the key dispatch of game_loop (rs2048/src/user_interface.rs).        *)
(*                                                                         *)
(* A grid is a sequence of rows, each row a sequence of cells.  The code's  *)
(* indices are 0-based; row i of the code is values[i + 1] here.            *)
(***************************************************************************)
EXTENDS Integers, Sequences, FiniteSets, TLC

(***************************************************************************)
(* Bounds of the model.                                                    *)
(***************************************************************************)
\* longest line handed to merge_tiles on its own
MaxLen == 4
\* largest rank in a line handed to merge_tiles on its own
MaxRank == 3
\* side of the boards handed to the Board operations on their own
MaxSize == 2
\* largest rank in those boards
MaxBoardRank == 2
\* largest number of tiles placed on those boards
MaxTiles == 4
\* number of key presses game_loop handles in one run
MaxMoves == 2
\* largest width and height of a DataGrid used on its own, largest index and
\* longest line handed to its operations
MaxDim == 2
\* largest rank in the boards whose lines are merged in any order
MaxOrderRank == 1

(***************************************************************************)
(* Program constants.                                                      *)
(***************************************************************************)
\* TileType = u8: arithmetic on ranks is modulo 2^8
TileTypeModulus == 256
\* Game::start_new_game builds Board::new(4)
GameBoardSize == 4

(***************************************************************************)
(* Option and Result values.                                               *)
(***************************************************************************)
None == [tag |-> "None"]
Some(v) == [tag |-> "Some", val |-> v]
Ok(v) == [tag |-> "Ok", val |-> v]
Err(e) == [tag |-> "Err", err |-> e]
\* a panic (a failed unwrap, an index out of range, an arithmetic overflow)
\* as a Result, as a line and as a grid: no line or grid holds a negative cell
PANIC == [tag |-> "Panic"]
PANIC_LINE == <<-1>>
PANIC_GRID == <<<<-1>>>>
Unit == "()"
\* a plain value returned by a call (usize, Self)
Value(v) == [tag |-> "Value", val |-> v]

IndexNotFound == "IndexNotFound"
InvalidDataLength == "InvalidDataLength"

Reverse(s) == [i \in 1..Len(s) |-> s[Len(s) + 1 - i]]
Repeat(v, n) == [i \in 1..n |-> v]

(***************************************************************************)
(* DataGrid<T>                                                             *)
(***************************************************************************)
DataGrid_new(width, height, initial_value) ==
    [r \in 1..height |-> [c \in 1..width |-> initial_value]]

get_height(values) == Len(values)

\* self.values[0].len(): panics on a grid without rows (-1 here)
get_width(values) == IF Len(values) = 0 THEN -1 ELSE Len(values[1])

get_row(values, index) ==
    IF index < Len(values) THEN Some(values[index + 1]) ELSE None

\* a variant of get_column that collects the rows from the last one up
get_column_from_last_row(values, index) ==
    IF \A r \in 1..Len(values) : index < Len(values[r])
    THEN Some(Reverse([r \in 1..Len(values) |-> values[r][index + 1]]))
    ELSE None

\* every row's .get(index), collected into an Option: None as soon as one row
\* has no such element
get_column(values, index) ==
    IF \A r \in 1..Len(values) : index < Len(values[r])
    THEN Some([r \in 1..Len(values) |-> values[r][index + 1]])
    ELSE None

\* a variant of update_row that looks at the index before the length of data
update_row_checks_index_first(values, index, data) ==
    IF Len(values) = 0 THEN [ret |-> PANIC, values |-> values]
    ELSE IF index >= Len(values)
    THEN [ret |-> Err(IndexNotFound), values |-> values]
    ELSE IF Len(data) # Len(values[1])
    THEN [ret |-> Err(InvalidDataLength), values |-> values]
    ELSE [ret |-> Ok(Unit), values |-> [values EXCEPT ![index + 1] = data]]

\* a variant of update_row that stores data from its last cell to its first
update_row_stores_reversed(values, index, data) ==
    IF Len(values) = 0 THEN [ret |-> PANIC, values |-> values]
    ELSE IF Len(data) # Len(values[1])
    THEN [ret |-> Err(InvalidDataLength), values |-> values]
    ELSE IF index < Len(values)
    THEN [ret |-> Ok(Unit),
          values |-> [values EXCEPT ![index + 1] = Reverse(data)]]
    ELSE [ret |-> Err(IndexNotFound), values |-> values]

\* the result and the grid the call leaves behind
update_row(values, index, data) ==
    IF Len(values) = 0 THEN [ret |-> PANIC, values |-> values]
    ELSE IF Len(data) # Len(values[1])
    THEN [ret |-> Err(InvalidDataLength), values |-> values]
    ELSE IF index < Len(values)
    THEN [ret |-> Ok(Unit), values |-> [values EXCEPT ![index + 1] = data]]
    ELSE [ret |-> Err(IndexNotFound), values |-> values]

\* the loop of update_column from row r on: a row without that column ends
\* the call, the rows before it stay written
RECURSIVE update_column_loop(_, _, _, _)
update_column_loop(values, index, data, r) ==
    IF r > Len(values) THEN [ret |-> Ok(Unit), values |-> values]
    ELSE IF index < Len(values[r])
    THEN update_column_loop([values EXCEPT ![r][index + 1] = data[r]],
                            index, data, r + 1)
    ELSE [ret |-> Err(IndexNotFound), values |-> values]

\* a variant of update_column that writes the cells it has data for before it
\* compares the lengths
update_column_checks_length_last(values, index, data) ==
    LET n == IF Len(data) < Len(values) THEN Len(data) ELSE Len(values)
        written == [r \in 1..Len(values) |->
                       IF r <= n /\ index < Len(values[r])
                       THEN [values[r] EXCEPT ![index + 1] = data[r]]
                       ELSE values[r]]
    IN  IF Len(data) # Len(values)
        THEN [ret |-> Err(InvalidDataLength), values |-> written]
        ELSE update_column_loop(values, index, data, 1)

\* a variant of update_column that also empties the column after the one it
\* writes
update_column_clears_next(values, index, data) ==
    IF Len(data) # Len(values)
    THEN [ret |-> Err(InvalidDataLength), values |-> values]
    ELSE LET u == update_column_loop(values, index, data, 1)
         IN  [ret |-> u.ret,
              values |-> [r \in 1..Len(u.values) |->
                            [c \in 1..Len(u.values[r]) |->
                               IF c = index + 2 THEN 0 ELSE u.values[r][c]]]]


update_column(values, index, data) ==
    IF Len(data) # Len(values)
    THEN [ret |-> Err(InvalidDataLength), values |-> values]
    ELSE update_column_loop(values, index, data, 1)

\* a variant of update_single_position that takes the column for the row
update_single_position_swapped(values, row, column, value) ==
    IF column >= Len(values)
    THEN [ret |-> Err(IndexNotFound), values |-> values]
    ELSE IF row >= Len(values[column + 1])
    THEN [ret |-> Err(IndexNotFound), values |-> values]
    ELSE [ret |-> Ok(Unit),
          values |-> [values EXCEPT ![column + 1][row + 1] = value]]

update_single_position(values, row, column, value) ==
    IF row >= Len(values) THEN [ret |-> Err(IndexNotFound), values |-> values]
    ELSE IF column >= Len(values[row + 1])
    THEN [ret |-> Err(IndexNotFound), values |-> values]
    ELSE [ret |-> Ok(Unit),
          values |-> [values EXCEPT ![row + 1][column + 1] = value]]

\* a variant of transpose that reads each column from the last row up
transpose_rotates(values) ==
    IF Len(values) = 0 THEN values
    ELSE [c \in 1..get_width(values) |->
            LET col == get_column(values, c - 1)
            IN  IF col = None THEN <<>> ELSE Reverse(col.val)]

\* a variant of transpose that hands the rows back as they are
transpose_keeps_rows(values) == values


transpose(values) ==
    IF Len(values) = 0 THEN values
    ELSE [c \in 1..get_width(values) |->
            LET col == get_column(values, c - 1)
            IN  IF col = None THEN <<>> ELSE col.val]

iter_rows(values) == values

\* a variant of try_from that does not compare the rows' lengths
try_from_accepts_jagged(value) ==
    IF value = <<>> THEN Err(InvalidDataLength)
    ELSE IF value[1] = <<>> THEN Err(InvalidDataLength)
    ELSE Ok(value)

\* TryFrom<Vec<Vec<T>>>: Ok of the grid that owns the rows, or the error
try_from(value) ==
    IF value = <<>> THEN Err(InvalidDataLength)
    ELSE IF value[1] = <<>> THEN Err(InvalidDataLength)
    ELSE IF ~(\A r \in 1..Len(value) : Len(value[r]) = Len(value[1]))
    THEN Err(InvalidDataLength)
    ELSE Ok(value)

(***************************************************************************)
(* Board::merge_tiles                                                      *)
(***************************************************************************)
\* a variant of tile + 1 that adds two
tile_plus_two(tile) == (tile + 2) % TileTypeModulus

\* tile + 1 on a u8 (the release build wraps)
tile_plus_one(tile) == (tile + 1) % TileTypeModulus

\* the for loop over tiles.iter().skip(1), from position i (1-based) on
RECURSIVE merge_tiles_loop(_, _, _, _)
merge_tiles_loop(tiles, i, last_seen_tile, result) ==
    IF i > Len(tiles) THEN [last_seen_tile |-> last_seen_tile, result |-> result]
    ELSE LET tile == tiles[i]
         IN  IF tile = 0
             THEN merge_tiles_loop(tiles, i + 1, last_seen_tile, result)
             ELSE IF tile = last_seen_tile
             THEN merge_tiles_loop(tiles, i + 1, 0,
                                   Append(result, tile_plus_one(tile)))
             ELSE merge_tiles_loop(tiles, i + 1, tile,
                                   IF last_seen_tile # 0
                                   THEN Append(result, last_seen_tile)
                                   ELSE result)

\* a variant that keeps a merged tile as the carry, so that it merges again
merge_tiles_cascading(tiles) ==
    LET RECURSIVE loop(_, _, _)
        loop(i, last, result) ==
            IF i > Len(tiles) THEN Append(result, last)
            ELSE IF tiles[i] = 0 THEN loop(i + 1, last, result)
            ELSE IF tiles[i] = last THEN loop(i + 1, tile_plus_one(last), result)
            ELSE loop(i + 1, tiles[i],
                      IF last # 0 THEN Append(result, last) ELSE result)
    IN  IF tiles = <<>> THEN <<>>
        ELSE LET r == loop(2, tiles[1], <<>>)
             IN  r \o Repeat(0, Len(tiles) - Len(r))

\* a variant in which an empty cell resets the carry, so that a gap blocks
\* a merge
merge_tiles_gap_blocks(tiles) ==
    LET RECURSIVE loop(_, _, _)
        loop(i, last, result) ==
            IF i > Len(tiles) THEN Append(result, last)
            ELSE IF tiles[i] = 0
            THEN loop(i + 1, 0, IF last # 0 THEN Append(result, last) ELSE result)
            ELSE IF tiles[i] = last
            THEN loop(i + 1, 0, Append(result, tile_plus_one(last)))
            ELSE loop(i + 1, tiles[i],
                      IF last # 0 THEN Append(result, last) ELSE result)
    IN  IF tiles = <<>> THEN <<>>
        ELSE LET r == loop(2, tiles[1], <<>>)
             IN  r \o Repeat(0, Len(tiles) - Len(r))

\* a variant that emits the carry even when it is empty
merge_tiles_emits_empty_carry(tiles) ==
    LET RECURSIVE loop(_, _, _)
        loop(i, last, result) ==
            IF i > Len(tiles) THEN Append(result, last)
            ELSE IF tiles[i] = 0 THEN loop(i + 1, last, result)
            ELSE IF tiles[i] = last
            THEN loop(i + 1, 0, Append(result, tile_plus_one(last)))
            ELSE loop(i + 1, tiles[i], Append(result, last))
    IN  IF tiles = <<>> THEN <<>>
        ELSE LET r == loop(2, tiles[1], <<>>)
             IN  r \o Repeat(0, Len(tiles) - Len(r))

\* a variant that returns the tiles it pushed without the padding
merge_tiles_without_padding(tiles) ==
    IF tiles = <<>> THEN <<>>
    ELSE LET l == merge_tiles_loop(tiles, 2, tiles[1], <<>>)
         IN  Append(l.result, l.last_seen_tile)

\* a variant that pushes an empty cell after every merged tile
merge_tiles_pads_each_merge(tiles) ==
    LET RECURSIVE loop(_, _, _)
        loop(i, last, result) ==
            IF i > Len(tiles) THEN Append(result, last)
            ELSE IF tiles[i] = 0 THEN loop(i + 1, last, result)
            ELSE IF tiles[i] = last
            THEN loop(i + 1, 0, result \o <<tile_plus_one(last), 0>>)
            ELSE loop(i + 1, tiles[i],
                      IF last # 0 THEN Append(result, last) ELSE result)
    IN  IF tiles = <<>> THEN <<>>
        ELSE LET r == loop(2, tiles[1], <<>>)
             IN  IF Len(tiles) - Len(r) < 0 THEN PANIC_LINE
                 ELSE r \o Repeat(0, Len(tiles) - Len(r))

merge_tiles(tiles) ==
    IF tiles = <<>> THEN <<>>
    ELSE LET l == merge_tiles_loop(tiles, 2, tiles[1], <<>>)
             result == Append(l.result, l.last_seen_tile)
         IN  \* tiles.len() - result.len() on usize
             IF Len(tiles) - Len(result) < 0 THEN PANIC_LINE
             ELSE result \o Repeat(0, Len(tiles) - Len(result))


(***************************************************************************)
(* Board                                                                   *)
(***************************************************************************)
AddRandomTileError == "AddRandomTileError"

Board_new(size) == DataGrid_new(size, size, 0)

\* a variant that hands the two indices on in the other order
place_item_in_board_swapped(values, column, row, value) ==
    update_single_position(values, row, column, value)

\* passes its first argument on as the row and its second as the column
place_item_in_board(values, column, row, value) ==
    update_single_position(values, column, row, value)

\* the loop of merge_up from column i (0-based) on; a failed unwrap panics
RECURSIVE merge_up_loop(_, _)
merge_up_loop(values, i) ==
    IF i >= get_width(values) THEN values
    ELSE LET column == get_column(values, i)
         IN  IF column = None THEN PANIC_GRID
             ELSE LET merged == merge_tiles(column.val)
                  IN  IF merged = PANIC_LINE THEN PANIC_GRID
                      ELSE LET u == update_column(values, i, merged)
                           IN  IF u.ret.tag # "Ok" THEN PANIC_GRID
                               ELSE merge_up_loop(u.values, i + 1)

merge_up(values) == merge_up_loop(values, 0)

RECURSIVE merge_down_loop(_, _)
merge_down_loop(values, i) ==
    IF i >= get_width(values) THEN values
    ELSE LET column == get_column(values, i)
         IN  IF column = None THEN PANIC_GRID
             ELSE LET merged == merge_tiles(Reverse(column.val))
                  IN  IF merged = PANIC_LINE THEN PANIC_GRID
                      ELSE LET u == update_column(values, i, Reverse(merged))
                           IN  IF u.ret.tag # "Ok" THEN PANIC_GRID
                               ELSE merge_down_loop(u.values, i + 1)

merge_down(values) == merge_down_loop(values, 0)

RECURSIVE merge_left_loop(_, _)
merge_left_loop(values, i) ==
    IF i >= get_height(values) THEN values
    ELSE LET row == get_row(values, i)
         IN  IF row = None THEN PANIC_GRID
             ELSE LET merged == merge_tiles(row.val)
                  IN  IF merged = PANIC_LINE THEN PANIC_GRID
                      ELSE LET u == update_row(values, i, merged)
                           IN  IF u.ret.tag # "Ok" THEN PANIC_GRID
                               ELSE merge_left_loop(u.values, i + 1)

merge_left(values) == merge_left_loop(values, 0)

\* a variant of merge_right that leaves out both reversals
merge_right_unreversed(values) == merge_left_loop(values, 0)

RECURSIVE merge_right_loop(_, _)
merge_right_loop(values, i) ==
    IF i >= get_height(values) THEN values
    ELSE LET row == get_row(values, i)
         IN  IF row = None THEN PANIC_GRID
             ELSE LET merged == merge_tiles(Reverse(row.val))
                  IN  IF merged = PANIC_LINE THEN PANIC_GRID
                      ELSE LET u == update_row(values, i, Reverse(merged))
                           IN  IF u.ret.tag # "Ok" THEN PANIC_GRID
                               ELSE merge_right_loop(u.values, i + 1)

merge_right(values) == merge_right_loop(values, 0)

\* a variant that does not look at the last row
empty_positions_misses_last_row(values) ==
    {p \in (0..Len(values[1]) - 1) \X (0..Len(values) - 2) :
        values[p[2] + 1][p[1] + 1] = 0}

\* the (x_index, y_index) pairs of the cells holding 0
empty_positions(values) ==
    {<<x - 1, y - 1>> : y \in 1..Len(values), x \in 1..Len(values[1])}
        \ {p \in (0..Len(values[1]) - 1) \X (0..Len(values) - 1) :
              values[p[2] + 1][p[1] + 1] # 0}

\* a variant of the ranks add_random_tile draws from that has an 8 as well
new_tile_values_with_eight == {1, 2, 3}

\* the ranks choose_weighted draws from
new_tile_values == {1, 2}

\* add_random_tile once `choose` has drawn pos and choose_weighted has drawn
\* value_to_add
add_random_tile_at(values, pos, value_to_add) ==
    LET p == place_item_in_board(values, pos[2], pos[1], value_to_add)
    IN  IF p.ret.tag = "Ok" THEN [ret |-> Ok(Unit), values |-> p.values]
        ELSE [ret |-> PANIC, values |-> p.values]

\* a variant of add_random_tile that gives up when a single cell is empty
add_random_tile_needs_two_empty(values) ==
    IF Cardinality(empty_positions(values)) <= 1
    THEN {[ret |-> Err(AddRandomTileError), values |-> values]}
    ELSE {add_random_tile_at(values, pos, v) :
            pos \in empty_positions(values), v \in new_tile_values}

\* every outcome of add_random_tile
add_random_tile(values) ==
    IF empty_positions(values) = {}
    THEN {[ret |-> Err(AddRandomTileError), values |-> values]}
    ELSE {add_random_tile_at(values, pos, v) :
            pos \in empty_positions(values), v \in new_tile_values}


(***************************************************************************)
(* Game                                                                    *)
(***************************************************************************)
GameEvent == {"SwipeUp", "SwipeDown", "SwipeLeft", "SwipeRight",
              "Undo", "SaveGame", "LoadGame", "NewGame"}

Swipes == {"SwipeUp", "SwipeDown", "SwipeLeft", "SwipeRight"}

\* the merge a swipe arm of handle_event calls
swipe_merge(event, values) ==
    CASE event = "SwipeUp" -> merge_up(values)
      [] event = "SwipeDown" -> merge_down(values)
      [] event = "SwipeLeft" -> merge_left(values)
      [] event = "SwipeRight" -> merge_right(values)

\* every outcome of start_new_game: add_random_tile().unwrap() on a new board
start_new_game ==
    {IF o.ret.tag = "Ok"
     THEN Ok([board |-> o.values, score |-> 0, is_game_over |-> FALSE,
              game_over_reason |-> None])
     ELSE PANIC : o \in add_random_tile(Board_new(GameBoardSize))}

\* start_new_game with Board::new(size) in place of Board::new(4)
start_new_game_of_size(size) ==
    {IF o.ret.tag = "Ok"
     THEN Ok([board |-> o.values, score |-> 0, is_game_over |-> FALSE,
              game_over_reason |-> None])
     ELSE PANIC : o \in add_random_tile(Board_new(size))}

\* a variant of the swipe arm that never inserts a tile
handle_swipe_never_spawns(self, event) ==
    {Ok([self EXCEPT !.board = swipe_merge(event, self.board)])}

\* a variant of the swipe arm that inserts a tile whether or not the board
\* changed
handle_swipe_always_spawns(self, event) ==
    LET merged == swipe_merge(event, self.board)
    IN  {IF o.ret.tag = "Ok" THEN Ok([self EXCEPT !.board = o.values])
         ELSE IF o.ret.tag = "Err" THEN Err(AddRandomTileError)
         ELSE PANIC : o \in add_random_tile(merged)}

\* a variant of the swipe arm that ends the game when the merge changed
\* nothing on a board without an empty cell
handle_swipe_ends_game(self, event) ==
    LET before == self
        merged == swipe_merge(event, self.board)
    IN  IF merged # before.board
        THEN {IF o.ret.tag = "Ok" THEN Ok([self EXCEPT !.board = o.values])
              ELSE Err(AddRandomTileError) : o \in add_random_tile(merged)}
        ELSE IF empty_positions(merged) = {}
        THEN {Ok([self EXCEPT !.is_game_over = TRUE])}
        ELSE {Ok(self)}

\* one swipe arm: merge, compare with the clone taken before, insert a tile
\* only if the board changed; `?` hands a failed insertion on as GameError
handle_swipe(self, event) ==
    LET before == self
        merged == swipe_merge(event, self.board)
    IN  IF merged = PANIC_GRID THEN {PANIC}
        ELSE IF merged # before.board
        THEN {IF o.ret.tag = "Ok" THEN Ok([self EXCEPT !.board = o.values])
              ELSE IF o.ret.tag = "Err" THEN Err(AddRandomTileError)
              ELSE PANIC : o \in add_random_tile(merged)}
        ELSE {Ok([self EXCEPT !.board = merged])}

\* a variant whose NewGame arm puts the new tile on the board in play
handle_event_new_game_keeps_board(self, event) ==
    IF event \in Swipes THEN handle_swipe(self, event)
    ELSE IF event = "NewGame"
    THEN {IF o.ret.tag = "Ok"
          THEN Ok([board |-> o.values, score |-> 0, is_game_over |-> FALSE,
                   game_over_reason |-> None])
          ELSE PANIC : o \in add_random_tile(self.board)}
    ELSE {PANIC}

\* every outcome of handle_event; Undo, SaveGame and LoadGame are todo!()
handle_event(self, event) ==
    IF event \in Swipes THEN handle_swipe(self, event)
    ELSE IF event = "NewGame" THEN start_new_game
    ELSE {PANIC}


(***************************************************************************)
(* State.                                                                  *)
(*   tiles, merged, remerged, line_pc: a line handed to merge_tiles, what   *)
(*     the call returned, and what a second call on that result returned.   *)
(*   board, board_before, board_op, board_ret, board_choice: a Board, the   *)
(*     Board before the last call on it, that call, what it returned and    *)
(*     what the random generator drew in it.                                *)
(*   game_state, game_before, event, moves: game_loop's game_state; the     *)
(*     event being handled ("none" while the loop waits for a key,          *)
(*     "exited" once the process has ended) and the Game its handle_event   *)
(*     consumed; the number of events handled.                              *)
(*   grid, grid_before, grid_call, grid_ret: a DataGrid, the DataGrid       *)
(*     before the last call on it, that call with its arguments and what    *)
(*     it returned.                                                         *)
(*   lines_pc, lines_held: for a directional merge whose lines are taken in *)
(*     any order, where each line stands ("todo", "held" once it has been   *)
(*     read, "done" once it has been written back) and the line read.       *)
(***************************************************************************)
VARIABLES tiles, merged, remerged, line_pc,
          board, board_before, board_op, board_ret, board_choice,
          game_state, game_before, event, moves,
          grid, grid_before, grid_call, grid_ret,
          lines_pc, lines_held

line_vars == <<tiles, merged, remerged, line_pc>>
board_vars == <<board, board_before, board_op, board_ret, board_choice>>
game_vars == <<game_state, game_before, event, moves>>
grid_vars == <<grid, grid_before, grid_call, grid_ret>>
order_vars == <<lines_pc, lines_held>>
vars == <<tiles, merged, remerged, line_pc,
          board, board_before, board_op, board_ret, board_choice,
          game_state, game_before, event, moves,
          grid, grid_before, grid_call, grid_ret,
          lines_pc, lines_held>>

NoLine == tiles = <<>> /\ merged = <<>> /\ remerged = <<>> /\ line_pc = "none"
NoBoard ==
    /\ board = <<>> /\ board_before = <<>> /\ board_op = "none"
    /\ board_ret = Unit /\ board_choice = <<>>
NoGame == game_state = None /\ game_before = None /\ event = "none" /\ moves = 0
NoGrid ==
    /\ grid = <<>> /\ grid_before = <<>> /\ grid_call = <<"none">>
    /\ grid_ret = None
NoOrder == lines_pc = <<>> /\ lines_held = <<>>

(***************************************************************************)
(* merge_tiles on its own                                                  *)
(***************************************************************************)
Lines == UNION {[1..n -> 0..MaxRank] : n \in 0..MaxLen}

InitTiles ==
    /\ tiles \in Lines
    /\ merged = <<>> /\ remerged = <<>> /\ line_pc = "input"
    /\ NoBoard /\ NoGame /\ NoGrid /\ NoOrder

MergeTiles ==
    /\ line_pc = "input"
    /\ merged' = merge_tiles(tiles)
    /\ line_pc' = "merged"
    /\ UNCHANGED <<tiles, remerged, board_vars, game_vars, grid_vars, order_vars>>

MergeTilesAgain ==
    /\ line_pc = "merged"
    /\ merged # PANIC_LINE
    /\ remerged' = merge_tiles(merged)
    /\ line_pc' = "remerged"
    /\ UNCHANGED <<tiles, merged, board_vars, game_vars, grid_vars, order_vars>>

NextTiles == MergeTiles \/ MergeTilesAgain

SpecTiles == InitTiles /\ [][NextTiles]_vars

(***************************************************************************)
(* The Board operations on their own                                       *)
(***************************************************************************)
\* the boards of Board::new(size) with up to MaxTiles tiles placed on them
Boards ==
    UNION {{b \in [1..size -> [1..size -> 0..MaxBoardRank]] :
              Cardinality({p \in (1..size) \X (1..size) : b[p[1]][p[2]] # 0})
                  <= MaxTiles} : size \in 1..MaxSize}

InitBoard ==
    /\ board \in Boards
    /\ board_before = board /\ board_op = "new"
    /\ board_ret = Unit /\ board_choice = <<>>
    /\ NoLine /\ NoGame /\ NoGrid /\ NoOrder

BoardMerge(op, after) ==
    /\ board_op = "new"
    /\ board_before' = board
    /\ board' = after
    /\ board_op' = op
    /\ board_ret' = Unit
    /\ board_choice' = <<>>
    /\ UNCHANGED <<line_vars, game_vars, grid_vars, order_vars>>

MergeUp == BoardMerge("merge_up", merge_up(board))

MergeDown == BoardMerge("merge_down", merge_down(board))

MergeLeft == BoardMerge("merge_left", merge_left(board))

MergeRight == BoardMerge("merge_right", merge_right(board))

\* add_random_tile with the generator drawing pos among the empty positions
\* and value among the two ranks
AddRandomTile ==
    /\ board_op = "new"
    /\ empty_positions(board) # {}
    /\ \E pos \in empty_positions(board), value \in new_tile_values :
          LET o == add_random_tile_at(board, pos, value)
          IN  /\ board' = o.values
              /\ board_ret' = o.ret
              /\ board_choice' = <<pos, value>>
    /\ board_before' = board
    /\ board_op' = "add_random_tile"
    /\ UNCHANGED <<line_vars, game_vars, grid_vars, order_vars>>

\* add_random_tile when no position is empty
AddRandomTileFull ==
    /\ board_op = "new"
    /\ empty_positions(board) = {}
    /\ \E o \in add_random_tile(board) :
          /\ board' = o.values
          /\ board_ret' = o.ret
    /\ board_choice' = <<>>
    /\ board_before' = board
    /\ board_op' = "add_random_tile"
    /\ UNCHANGED <<line_vars, game_vars, grid_vars, order_vars>>

NextBoard ==
    \/ MergeUp
    \/ MergeDown
    \/ MergeLeft
    \/ MergeRight
    \/ AddRandomTile
    \/ AddRandomTileFull

SpecBoard == InitBoard /\ [][NextBoard]_vars

(***************************************************************************)
(* game_loop: the game from start_new_game on, one key press at a time     *)
(***************************************************************************)
Init ==
    /\ game_state \in start_new_game
    /\ game_before = None /\ event = "start" /\ moves = 0
    /\ NoLine /\ NoBoard /\ NoGrid /\ NoOrder

\* the top of the loop: an Ok state is drawn (render_board), the clone
\* handle_event took is gone and the loop waits for the next key; an Err state
\* goes to render_game_state_error, which ends the process with exit(1)
Render ==
    /\ event \notin {"none", "exited"}
    /\ game_state # PANIC
    /\ event' = IF game_state.tag = "Ok" THEN "none" ELSE "exited"
    /\ game_before' = None
    /\ UNCHANGED <<game_state, moves, line_vars, board_vars, grid_vars, order_vars>>

\* game_state = game_state.unwrap().handle_event(e)
Dispatch(e) ==
    /\ event = "none"
    /\ moves < MaxMoves
    /\ IF game_state.tag = "Ok"
       THEN /\ game_state' \in handle_event(game_state.val, e)
            /\ game_before' = game_state.val
       ELSE /\ game_state' = PANIC
            /\ game_before' = None
    /\ event' = e
    /\ moves' = moves + 1
    /\ UNCHANGED <<line_vars, board_vars, grid_vars, order_vars>>

KeyUp == Dispatch("SwipeUp")

KeyLeft == Dispatch("SwipeLeft")

KeyRight == Dispatch("SwipeRight")

KeyDown == Dispatch("SwipeDown")

KeyR == Dispatch("NewGame")

Next == Render \/ KeyUp \/ KeyLeft \/ KeyRight \/ KeyDown \/ KeyR

Spec == Init /\ [][Next]_vars

(***************************************************************************)
(* The game on a board of half the side, played without a bound on the     *)
(* number of key presses, next to the game on the board of the program.    *)
(* A restart of the small game starts a game on the small board.          *)
(***************************************************************************)
\* side of the board of the small game
SmallBoardSize == GameBoardSize \div 2

InitSmall ==
    /\ game_state \in start_new_game_of_size(SmallBoardSize)
    /\ game_before = None /\ event = "start" /\ moves = 0
    /\ NoLine /\ NoBoard /\ NoGrid /\ NoOrder

\* the game in play is the small one
SmallGame ==
    /\ game_state.tag = "Ok"
    /\ Len(game_state.val.board) = SmallBoardSize

\* game_state = game_state.unwrap().handle_event(e) for a swipe e
Swipe(e) ==
    /\ SmallGame
    /\ event = "none"
    /\ game_state' \in handle_event(game_state.val, e)
    /\ game_before' = game_state.val
    /\ event' = e
    /\ UNCHANGED <<moves, line_vars, board_vars, grid_vars, order_vars>>

SmallKeyUp == Swipe("SwipeUp")

SmallKeyLeft == Swipe("SwipeLeft")

SmallKeyRight == Swipe("SwipeRight")

SmallKeyDown == Swipe("SwipeDown")

\* game_state = game_state.unwrap().handle_event(GameEvent::NewGame), with
\* the small board in start_new_game
SmallKeyR ==
    /\ SmallGame
    /\ event = "none"
    /\ game_state' \in start_new_game_of_size(SmallBoardSize)
    /\ game_before' = game_state.val
    /\ event' = "NewGame"
    /\ UNCHANGED <<moves, line_vars, board_vars, grid_vars, order_vars>>

NextSmall ==
    \/ SmallGame /\ Render
    \/ SmallKeyUp \/ SmallKeyLeft \/ SmallKeyRight \/ SmallKeyDown
    \/ SmallKeyR

InitPlay == Init \/ InitSmall

NextPlay == (~SmallGame /\ Next) \/ NextSmall

SpecPlay == InitPlay /\ [][NextPlay]_vars

(***************************************************************************)
(* The Board operations on boards of any content next to the small game:   *)
(* the merges on their own and the merges within a swipe.                  *)
(***************************************************************************)
InitSwipes == InitBoard \/ InitSmall

NextSwipes == NextBoard \/ NextSmall

SpecSwipes == InitSwipes /\ [][NextSwipes]_vars

(***************************************************************************)
(* A directional merge with its lines taken in any order: the two          *)
(* statements of the loop body, reading a line and writing its merge back, *)
(* are steps of their own and the steps of different lines interleave.     *)
(***************************************************************************)
OrderBoards ==
    UNION {{b \in [1..size -> [1..size -> 0..MaxOrderRank]] :
              Cardinality({p \in (1..size) \X (1..size) : b[p[1]][p[2]] # 0})
                  <= MaxTiles} : size \in 1..MaxSize}

RowMerges == {"merge_left", "merge_right"}
ReversedMerges == {"merge_down", "merge_right"}

\* the bound of the loop: get_height for the row merges, get_width for the
\* column merges
LineCount(op, values) ==
    IF op \in RowMerges THEN get_height(values) ELSE get_width(values)

InitOrder ==
    /\ board \in OrderBoards
    /\ board_before = board
    /\ board_op \in {"merge_up", "merge_down", "merge_left", "merge_right"}
    /\ board_ret = Unit /\ board_choice = <<>>
    /\ lines_pc = [i \in 1..LineCount(board_op, board) |-> "todo"]
    /\ lines_held = [i \in 1..LineCount(board_op, board) |-> <<>>]
    /\ NoLine /\ NoGame /\ NoGrid

\* let mut row = self.board.get_row(i).unwrap(); row.reverse(); (or the
\* column) for the line with index i - 1
ReadLine(i) ==
    /\ board # PANIC_GRID
    /\ lines_pc[i] = "todo"
    /\ LET line == IF board_op \in RowMerges THEN get_row(board, i - 1)
                   ELSE get_column(board, i - 1)
       IN  IF line = None
           THEN /\ board' = PANIC_GRID
                /\ UNCHANGED lines_held
           ELSE /\ lines_held' =
                      [lines_held EXCEPT ![i] =
                          IF board_op \in ReversedMerges THEN Reverse(line.val)
                          ELSE line.val]
                /\ UNCHANGED board
    /\ lines_pc' = [lines_pc EXCEPT ![i] = "held"]
    /\ UNCHANGED <<board_before, board_op, board_ret, board_choice,
                   line_vars, game_vars, grid_vars>>

\* let mut merged = Board::merge_tiles(&row); merged.reverse();
\* self.board.update_row(i, merged).unwrap(); (or the column)
WriteLine(i) ==
    /\ board # PANIC_GRID
    /\ lines_pc[i] = "held"
    /\ LET m == merge_tiles(lines_held[i])
           data == IF board_op \in ReversedMerges THEN Reverse(m) ELSE m
           u == IF board_op \in RowMerges THEN update_row(board, i - 1, data)
                ELSE update_column(board, i - 1, data)
       IN  board' = IF m = PANIC_LINE THEN PANIC_GRID
                    ELSE IF u.ret.tag # "Ok" THEN PANIC_GRID
                    ELSE u.values
    /\ lines_pc' = [lines_pc EXCEPT ![i] = "done"]
    /\ lines_held' = [lines_held EXCEPT ![i] = <<>>]
    /\ UNCHANGED <<board_before, board_op, board_ret, board_choice,
                   line_vars, game_vars, grid_vars>>

ReadSomeLine == \E i \in 1..Len(lines_pc) : ReadLine(i)

WriteSomeLine == \E i \in 1..Len(lines_pc) : WriteLine(i)

NextOrder == ReadSomeLine \/ WriteSomeLine

SpecOrder == InitOrder /\ [][NextOrder]_vars

(***************************************************************************)
(* A DataGrid on its own: constructed by DataGrid::new or try_from, then    *)
(* read and written through its public methods.                             *)
(***************************************************************************)
\* the cells' values
GridValues == {0, 1}
GridDims == 0..MaxDim
GridIndices == 0..MaxDim
GridLines == UNION {[1..n -> GridValues] : n \in 0..MaxDim}
\* Vec<Vec<T>> values handed to try_from: rows of any lengths
GridRows == UNION {[1..n -> GridLines] : n \in 0..MaxDim}

InitGrid ==
    /\ NoLine /\ NoBoard /\ NoGame /\ NoGrid /\ NoOrder

\* a constructor has returned a grid and no call on it has panicked
GridExists ==
    /\ grid_call[1] # "none"
    /\ grid_ret # PANIC
    /\ ~(grid_call[1] = "try_from" /\ grid_ret.tag = "Err")

\* no grid has been constructed yet
NoGridYet == grid_call = <<"none">>

GridNew ==
    /\ NoGridYet
    /\ \E width \in GridDims, height \in GridDims, initial_value \in GridValues :
        /\ grid' = DataGrid_new(width, height, initial_value)
        /\ grid_before' = <<>>
        /\ grid_call' = <<"new", width, height, initial_value>>
        /\ grid_ret' = Value(grid')
        /\ UNCHANGED <<line_vars, board_vars, game_vars, order_vars>>

GridTryFrom ==
    /\ NoGridYet
    /\ \E value \in GridRows :
        /\ grid_ret' = try_from(value)
        /\ grid' = IF grid_ret'.tag = "Ok" THEN grid_ret'.val ELSE <<>>
        /\ grid_before' = <<>>
        /\ grid_call' = <<"try_from", value>>
        /\ UNCHANGED <<line_vars, board_vars, game_vars, order_vars>>

\* the grid is in its caller's hands: the constructor or the last call has
\* returned and its result has been consumed
GridIdle == GridExists /\ grid_call[1] \in {"new", "try_from", "idle"}

\* the caller consumes what a call returned and keeps the grid
GridCallReturns ==
    /\ GridExists
    /\ ~GridIdle
    /\ grid_before' = <<>>
    /\ grid_call' = <<"idle">>
    /\ grid_ret' = None
    /\ UNCHANGED <<grid, line_vars, board_vars, game_vars, order_vars>>

\* a call of a method that takes &self
GridRead(call, ret) ==
    /\ GridIdle
    /\ grid_before' = grid
    /\ grid_call' = call
    /\ grid_ret' = ret
    /\ UNCHANGED <<grid, line_vars, board_vars, game_vars, order_vars>>

\* a call of a method that takes &mut self
GridWrite(call, after) ==
    /\ GridIdle
    /\ grid_before' = grid
    /\ grid_call' = call
    /\ grid_ret' = after.ret
    /\ grid' = after.values
    /\ UNCHANGED <<line_vars, board_vars, game_vars, order_vars>>

GetHeight == GridRead(<<"get_height">>, Value(get_height(grid)))

GetWidth ==
    GridRead(<<"get_width">>,
             IF get_width(grid) < 0 THEN PANIC ELSE Value(get_width(grid)))

GetRow ==
    /\ GridIdle
    /\ \E index \in GridIndices : GridRead(<<"get_row", index>>, get_row(grid, index))

GetColumn ==
    /\ GridIdle
    /\ \E index \in GridIndices :
        GridRead(<<"get_column", index>>, get_column(grid, index))

Transpose == GridRead(<<"transpose">>, Value(transpose(grid)))

UpdateRow ==
    /\ GridIdle
    /\ \E index \in GridIndices, data \in GridLines :
        GridWrite(<<"update_row", index, data>>, update_row(grid, index, data))

UpdateColumn ==
    /\ GridIdle
    /\ \E index \in GridIndices, data \in GridLines :
        GridWrite(<<"update_column", index, data>>,
                  update_column(grid, index, data))

UpdateSinglePosition ==
    /\ GridIdle
    /\ \E row \in GridIndices, column \in GridIndices, value \in GridValues :
        GridWrite(<<"update_single_position", row, column, value>>,
                  update_single_position(grid, row, column, value))

NextGrid ==
    \/ GridNew \/ GridTryFrom
    \/ GetHeight \/ GetWidth \/ GetRow \/ GetColumn \/ Transpose
    \/ UpdateRow \/ UpdateColumn \/ UpdateSinglePosition
    \/ GridCallReturns

SpecGrid == InitGrid /\ [][NextGrid]_vars


(***************************************************************************)
(* Properties of merge_tiles                                               *)
(***************************************************************************)
\* the reference merge-toward-front: drop the zeros, pair equal neighbours
\* front to back, pad with zeros
DropZeros(t) == SelectSeq(t, LAMBDA x : x # 0)

RECURSIVE PairUp(_)
PairUp(s) ==
    IF s = <<>> THEN <<>>
    ELSE IF Len(s) >= 2 /\ s[1] = s[2]
    THEN <<s[1] + 1>> \o PairUp(SubSeq(s, 3, Len(s)))
    ELSE <<s[1]>> \o PairUp(Tail(s))

ReferenceMerge(t) ==
    LET p == PairUp(DropZeros(t)) IN p \o Repeat(0, Len(t) - Len(p))

\* C1: merge_tiles(t) equals the reference merge-toward-front of t, for the
\* first call and for the call on its result; a gap between two equal tiles
\* does not block their merge (<<2,0,2,0>> gives <<3,0,0,0>>), the empty line
\* gives the empty line and a line of one tile is returned unchanged.
C1_MergeTilesIsReferenceMerge ==
    /\ line_pc \in {"merged", "remerged"} =>
          /\ merged = ReferenceMerge(tiles)
          /\ tiles = <<2, 0, 2, 0>> => merged = <<3, 0, 0, 0>>
          /\ tiles = <<>> => merged = <<>>
          /\ Len(tiles) = 1 => merged = tiles
    /\ line_pc = "remerged" => remerged = ReferenceMerge(merged)

C1_Witness ==
    line_pc = "merged" /\ tiles = <<2, 0, 2, 0>> /\ merged = <<3, 0, 0, 0>>

Count(t, v) == Cardinality({i \in DOMAIN t : t[i] = v})
NonEmpty(t) == Cardinality({i \in DOMAIN t : t[i] # 0})

\* twice the number of merges of two rank-v tiles that account for `out`,
\* given that every tile of rank v in `out` is a tile of `in` or the merge of
\* two tiles of rank v - 1
RECURSIVE MergedAway(_, _, _)
MergedAway(in, out, v) ==
    IF v = 0 THEN 0
    ELSE Count(in, v) + (MergedAway(in, out, v - 1) \div 2) - Count(out, v)

\* C2: no cascading in one call of merge_tiles.  The output is accounted for
\* by merging pairs of equal INPUT tiles only: for every rank v, the tiles of
\* rank v merged away are an even number of the input's tiles of rank v (a
\* tile made by a merge is never merged again).  So no output tile stands
\* for more than two input tiles, a run of 2k tiles of rank r gives k tiles of
\* rank r + 1 and k zeros, and <<1,1,2,0>> and <<2,1,1,0>> give <<2,2,0,0>>.
C2_NoCascading ==
    line_pc \in {"merged", "remerged"} =>
        /\ Len(merged) = Len(tiles)
        /\ \A v \in 1..(MaxRank + 2) :
              /\ MergedAway(tiles, merged, v) % 2 = 0
              /\ MergedAway(tiles, merged, v) >= 0
              /\ MergedAway(tiles, merged, v) <= Count(tiles, v)
        /\ 2 * NonEmpty(merged) >= NonEmpty(tiles)
        /\ \A r \in 1..MaxRank, k \in 1..MaxLen :
              tiles = Repeat(r, 2 * k) =>
                  merged = Repeat(r + 1, k) \o Repeat(0, k)
        /\ tiles \in {<<1, 1, 2, 0>>, <<2, 1, 1, 0>>} => merged = <<2, 2, 0, 0>>

C2_Witness ==
    line_pc = "merged" /\ tiles = <<2, 2, 2, 2>> /\ merged = <<3, 3, 0, 0>>

\* two equal non-empty tiles next to each other
HasEqualNeighbours(t) ==
    \E i \in 1..(Len(t) - 1) : t[i] # 0 /\ t[i] = t[i + 1]

\* no empty cell in front of a tile
Compacted(t) == \A i \in 1..(Len(t) - 1) : t[i] = 0 => t[i + 1] = 0


(***************************************************************************)
(* merge_tiles and the Board operations side by side                       *)
(***************************************************************************)
InitMerge == InitTiles \/ InitBoard

NextMerge == NextTiles \/ NextBoard

SpecMerge == InitMerge /\ [][NextMerge]_vars

MergeOps == {"merge_up", "merge_down", "merge_left", "merge_right"}

ApplyMerge(op, values) ==
    CASE op = "merge_up" -> merge_up(values)
      [] op = "merge_down" -> merge_down(values)
      [] op = "merge_left" -> merge_left(values)
      [] op = "merge_right" -> merge_right(values)

Row(b, r) == b[r]
Col(b, c) == [r \in 1..Len(b) |-> b[r][c]]

\* the lines of b along the direction of op
LinesAlong(op, b) ==
    IF op \in {"merge_left", "merge_right"}
    THEN {Row(b, r) : r \in 1..Len(b)}
    ELSE {Col(b, c) : c \in 1..Len(b[1])}

\* C3 as stated: merging twice in one direction gives what merging once
\* gives, for a line and for a board.
C3_MergeTwiceIsMergeOnce ==
    /\ line_pc = "remerged" => remerged = merged
    /\ board_op \in MergeOps => ApplyMerge(board_op, board) = board

\* C3 as amended: the result of a merge is compacted, and merging it again
\* changes it exactly when it holds two equal non-empty tiles next to each
\* other in a line along the direction of the merge.
C3_MergeTwiceIsMergeOnceUnlessEqualNeighbours ==
    /\ line_pc \in {"merged", "remerged"} => Compacted(merged)
    /\ line_pc = "remerged" =>
          (remerged = merged <=> ~HasEqualNeighbours(merged))
    /\ board_op \in MergeOps =>
          (ApplyMerge(board_op, board) = board
             <=> \A l \in LinesAlong(board_op, board) : ~HasEqualNeighbours(l))

C3_Witness ==
    /\ line_pc = "remerged" /\ tiles = <<1, 1, 2, 0>>
    /\ merged = <<2, 2, 0, 0>> /\ remerged = <<3, 0, 0, 0>>


(***************************************************************************)
(* Properties of the Board operations                                      *)
(***************************************************************************)
MirrorH(b) == [r \in 1..Len(b) |-> Reverse(b[r])]
MirrorV(b) == Reverse(b)
Cells(b) == {<<r, c>> : r \in 1..Len(b), c \in 1..Len(b[1])}
EmptyCells(b) == {p \in Cells(b) : b[p[1]][p[2]] = 0}
HasEmptyCell(b) == \E p \in Cells(b) : b[p[1]][p[2]] = 0
DiffCells(a, b) == {p \in Cells(a) : a[p[1]][p[2]] # b[p[1]][p[2]]}
SameShape(a, b) ==
    Len(a) = Len(b) /\ \A r \in 1..Len(a) : Len(a[r]) = Len(b[r])

\* the board of side n whose cells in `filled` hold v and whose other cells
\* are empty
Filled(n, filled, v) ==
    [r \in 1..n |-> [c \in 1..n |-> IF <<r, c>> \in filled THEN v ELSE 0]]

\* the half of a board of side n nearest the edge op merges toward
NearHalf(op, n) ==
    CASE op = "merge_up" -> {p \in (1..n) \X (1..n) : 2 * p[1] <= n}
      [] op = "merge_down" -> {p \in (1..n) \X (1..n) : 2 * p[1] > n}
      [] op = "merge_left" -> {p \in (1..n) \X (1..n) : 2 * p[2] <= n}
      [] op = "merge_right" -> {p \in (1..n) \X (1..n) : 2 * p[2] > n}

C8_AddRandomTileFillsOneEmptyCell ==
    (board_op = "add_random_tile" /\ HasEmptyCell(board_before)) =>
        /\ board_ret = Ok(Unit)
        /\ SameShape(board, board_before)
        /\ Len(board_choice) = 2
        /\ LET row == board_choice[1][2] + 1
               col == board_choice[1][1] + 1
               value == board_choice[2]
           IN  /\ <<row, col>> \in Cells(board_before)
               /\ board_before[row][col] = 0
               /\ value \in {1, 2}
               /\ board[row][col] = value
               /\ DiffCells(board_before, board) = {<<row, col>>}
               /\ Cardinality(EmptyCells(board_before)) = 1 =>
                     EmptyCells(board_before) = {<<row, col>>}

C8_Witness ==
    /\ board_op = "add_random_tile"
    /\ board_before = <<<<1, 2>>, <<0, 1>>>>
    /\ board = <<<<1, 2>>, <<2, 1>>>>
    /\ board_ret = Ok(Unit)

\* C9: add_random_tile returns Err(AddRandomTileError) exactly when the board
\* has no empty cell, and then leaves every cell as it was.
C9_AddRandomTileFailsOnlyOnFullBoard ==
    board_op = "add_random_tile" =>
        /\ board_ret = Err(AddRandomTileError) <=> ~HasEmptyCell(board_before)
        /\ ~HasEmptyCell(board_before) => board = board_before

C9_Witness ==
    /\ board_op = "add_random_tile"
    /\ board_before = <<<<1, 2>>, <<2, 1>>>>
    /\ board_ret = Err(AddRandomTileError)
    /\ board = board_before


(***************************************************************************)
(* Properties of Game::handle_event and Game::start_new_game               *)
(***************************************************************************)
TileCells(b) == {p \in Cells(b) : b[p[1]][p[2]] # 0}

\* the board the merge of the last swipe made of the board passed in
MergedBefore == swipe_merge(event, game_before.board)

\* C5: a swipe whose merge leaves the board as it was returns Ok with the
\* Game that was passed in: the same board cell for cell (no tile inserted),
\* the same score, is_game_over and game_over_reason.
C5_UnchangedMoveSpawnsNothing ==
    (event \in Swipes /\ MergedBefore = game_before.board) =>
        game_state = Ok(game_before)

C5_Witness ==
    /\ event = "SwipeLeft"
    /\ MergedBefore = game_before.board
    /\ game_state = Ok(game_before)

\* C6: a swipe whose merge changes the board returns Ok with a board that
\* differs from the merged board in exactly one cell, which is empty in the
\* merged board and holds rank 1 or 2 in the result.
C6_ChangedMoveSpawnsOneTile ==
    event \in Swipes =>
        LET m == MergedBefore
        IN  m # game_before.board =>
              /\ game_state.tag = "Ok"
              /\ SameShape(game_state.val.board, m)
              /\ LET diff == DiffCells(m, game_state.val.board)
                 IN  /\ Cardinality(diff) = 1
                     /\ \A p \in diff :
                           /\ m[p[1]][p[2]] = 0
                           /\ game_state.val.board[p[1]][p[2]] \in {1, 2}

C6_Witness ==
    /\ event = "SwipeDown"
    /\ MergedBefore # game_before.board
    /\ game_state.tag = "Ok"
    /\ Cardinality(DiffCells(MergedBefore, game_state.val.board)) = 1

\* C7: start_new_game, and handle_event on NewGame whatever Game it is handed,
\* return Ok with a 4x4 board holding exactly one tile, of rank 1 or 2, score
\* 0 and is_game_over false.
C7_NewGameStartsWithOneTile ==
    event \in {"start", "NewGame"} =>
        /\ game_state.tag = "Ok"
        /\ Len(game_state.val.board) = 4
        /\ \A r \in 1..4 : Len(game_state.val.board[r]) = 4
        /\ Cardinality(TileCells(game_state.val.board)) = 1
        /\ \A p \in TileCells(game_state.val.board) :
              game_state.val.board[p[1]][p[2]] \in {1, 2}
        /\ game_state.val.score = 0
        /\ game_state.val.is_game_over = FALSE

C7_Witness ==
    /\ event = "NewGame"
    /\ Cardinality(TileCells(game_before.board)) >= 2
    /\ game_state.tag = "Ok"
    /\ Cardinality(TileCells(game_state.val.board)) = 1

(***************************************************************************)
(* Claims about DataGrid                                                   *)
(***************************************************************************)
\* at least one row, at least one column, all rows of the same length
Valid(values) ==
    /\ Len(values) >= 1
    /\ Len(values[1]) >= 1
    /\ \A r \in 1..Len(values) : Len(values[r]) = Len(values[1])

GridUpdates == {"update_row", "update_column", "update_single_position"}

\* C11: try_from succeeds exactly when its input is non-empty, has a non-empty
\* first row and rows of one length; then the grid has the input's height,
\* width and cells; otherwise it returns Err(InvalidDataLength) and there is
\* no grid.
C11_TryFromAcceptsExactlyRectangularInput ==
    grid_call[1] = "try_from" =>
        LET value == grid_call[2]
        IN  IF Valid(value)
            THEN /\ grid_ret.tag = "Ok"
                 /\ GridExists
                 /\ get_height(grid) = Len(value)
                 /\ get_width(grid) = Len(value[1])
                 /\ \A r \in 1..Len(value) : \A c \in 1..Len(value[1]) :
                        grid[r][c] = value[r][c]
            ELSE /\ grid_ret = Err(InvalidDataLength)
                 /\ ~GridExists

\* try_from has accepted rows that are longer than they are many
C11_Witness ==
    /\ grid_call[1] = "try_from"
    /\ grid_ret.tag = "Ok"
    /\ get_height(grid) = 1
    /\ get_width(grid) = 2
    /\ grid[1][1] # grid[1][2]

\* C12: every grid that exists, made by DataGrid::new with any width and
\* height or by a successful try_from and then updated, has at least one row
\* and one column and rows of one length, keeps its width and height through
\* every update, and get_width and get_height return them without failing.
C12_GridInvariant ==
    (grid_call[1] # "none" /\ ~(grid_call[1] = "try_from" /\ grid_ret.tag = "Err")) =>
        /\ grid_ret # PANIC
        /\ Valid(grid)
        /\ grid_call[1] \in GridUpdates =>
                /\ Len(grid) = Len(grid_before)
                /\ Len(grid[1]) = Len(grid_before[1])
        /\ grid_call[1] = "get_height" => grid_ret = Value(Len(grid))
        /\ grid_call[1] = "get_width" => grid_ret = Value(Len(grid[1]))

\* C13: transposing a valid grid twice gives the grid back.
C13_TransposeIsInvolution ==
    (grid_call[1] = "transpose" /\ Valid(grid)) =>
        /\ Valid(grid_ret.val)
        /\ transpose(grid_ret.val) = grid

\* a grid with two rows of one cell each, not all equal, has been transposed
C13_Witness ==
    /\ grid_call[1] = "transpose"
    /\ Len(grid) = 2
    /\ Len(grid[1]) = 1
    /\ grid[1][1] # grid[2][1]
    /\ Len(grid_ret.val) = 1

\* C14: on a valid grid get_row(i) is None exactly when i >= height and
\* otherwise row i from left to right; get_column(i) is None exactly when
\* i >= width and otherwise column i from row 0 down; the grid stays as it was.
C14_GetRowAndGetColumn ==
    (grid_call[1] \in {"get_row", "get_column"} /\ Valid(grid_before)) =>
        LET i == grid_call[2]
            height == Len(grid_before)
            width == Len(grid_before[1])
        IN  /\ grid = grid_before
            /\ grid_call[1] = "get_row" =>
                    IF i >= height THEN grid_ret = None
                    ELSE /\ grid_ret.tag = "Some"
                         /\ Len(grid_ret.val) = width
                         /\ \A c \in 1..width :
                                grid_ret.val[c] = grid_before[i + 1][c]
            /\ grid_call[1] = "get_column" =>
                    IF i >= width THEN grid_ret = None
                    ELSE /\ grid_ret.tag = "Some"
                         /\ Len(grid_ret.val) = height
                         /\ \A r \in 1..height :
                                grid_ret.val[r] = grid_before[r][i + 1]

\* get_column has returned a column whose cells differ
C14_Witness ==
    /\ grid_call[1] = "get_column"
    /\ Valid(grid_before)
    /\ grid_ret.tag = "Some"
    /\ Len(grid_ret.val) = 2
    /\ grid_ret.val[1] # grid_ret.val[2]

\* C15 as stated: update_row with an index >= height and update_column with
\* an index >= width return Err(IndexNotFound) whatever data is passed (here
\* on valid grids only).
C15_IndexNotFoundWhateverData ==
    (grid_call[1] \in {"update_row", "update_column"} /\ Valid(grid_before)) =>
        LET i == grid_call[2]
            dim == IF grid_call[1] = "update_row" THEN Len(grid_before)
                   ELSE Len(grid_before[1])
        IN  i >= dim => grid_ret = Err(IndexNotFound)

\* C15, amended: the length of data is checked first.  On a grid with at
\* least one row, update_row with an index >= height (update_column with an
\* index >= width) returns Err(IndexNotFound) when data is as long as the
\* grid is wide (high) and Err(InvalidDataLength) when it is not.  On a grid
\* without rows update_row panics and update_column returns Ok for an empty
\* data and Err(InvalidDataLength) for any other.
C15_IndexNotFoundForDataOfTheRightLength ==
    grid_call[1] \in {"update_row", "update_column"} =>
        LET i == grid_call[2]
            data == grid_call[3]
            row == grid_call[1] = "update_row"
        IN  IF Len(grid_before) = 0
            THEN IF row THEN grid_ret = PANIC
                 ELSE grid_ret = IF Len(data) = 0 THEN Ok(Unit)
                                 ELSE Err(InvalidDataLength)
            ELSE LET dim == IF row THEN Len(grid_before)
                            ELSE Len(grid_before[1])
                     len == IF row THEN Len(grid_before[1])
                            ELSE Len(grid_before)
                 IN  i >= dim =>
                        grid_ret = IF Len(data) = len THEN Err(IndexNotFound)
                                   ELSE Err(InvalidDataLength)

\* update_row with an index beyond the last row and data of the wrong length
\* has returned InvalidDataLength
C15_Witness ==
    /\ grid_call[1] = "update_row"
    /\ Valid(grid_before)
    /\ grid_call[2] >= Len(grid_before)
    /\ Len(grid_call[3]) # Len(grid_before[1])
    /\ grid_ret = Err(InvalidDataLength)

\* C16: on a valid grid update_row and update_column with data of the wrong
\* length return Err(InvalidDataLength), and whenever they return an Err
\* every cell of the grid is what it was before the call.
C16_FailedLineWritesChangeNothing ==
    (grid_call[1] \in {"update_row", "update_column"} /\ Valid(grid_before)) =>
        LET data == grid_call[3]
            len == IF grid_call[1] = "update_row" THEN Len(grid_before[1])
                   ELSE Len(grid_before)
        IN  /\ Len(data) # len => grid_ret = Err(InvalidDataLength)
            /\ grid_ret.tag = "Err" =>
                    /\ Len(grid) = Len(grid_before)
                    /\ \A r \in 1..Len(grid) :
                        /\ Len(grid[r]) = Len(grid_before[r])
                        /\ \A c \in 1..Len(grid[r]) :
                                grid[r][c] = grid_before[r][c]

\* update_column has refused a column that is too short and whose first cell
\* differs from the cell it would have overwritten
C16_Witness ==
    /\ grid_call[1] = "update_column"
    /\ Valid(grid_before)
    /\ Len(grid_before) = 2
    /\ grid_call[2] < Len(grid_before[1])
    /\ Len(grid_call[3]) = 1
    /\ grid_call[3][1] # grid_before[1][grid_call[2] + 1]
    /\ grid_ret = Err(InvalidDataLength)

\* C17: on a valid grid update_single_position with row >= height or
\* column >= width returns Err(IndexNotFound) and changes nothing; otherwise
\* it returns Ok, the cell holds the value and every other cell is unchanged.
C17_UpdateSinglePositionWritesOneCell ==
    (grid_call[1] = "update_single_position" /\ Valid(grid_before)) =>
        LET row == grid_call[2]
            column == grid_call[3]
            value == grid_call[4]
            height == Len(grid_before)
            width == Len(grid_before[1])
        IN  /\ Len(grid) = height
            /\ \A r \in 1..height : Len(grid[r]) = width
            /\ IF row >= height \/ column >= width
               THEN /\ grid_ret = Err(IndexNotFound)
                    /\ \A r \in 1..height : \A c \in 1..width :
                            grid[r][c] = grid_before[r][c]
               ELSE /\ grid_ret = Ok(Unit)
                    /\ \A r \in 1..height : \A c \in 1..width :
                            grid[r][c] = IF r = row + 1 /\ c = column + 1
                                         THEN value ELSE grid_before[r][c]

\* a cell off the diagonal of a grid has been overwritten with a new value
C17_Witness ==
    /\ grid_call[1] = "update_single_position"
    /\ Valid(grid_before)
    /\ grid_ret = Ok(Unit)
    /\ grid_call[2] # grid_call[3]
    /\ grid # grid_before

\* C23: the transpose of a valid grid of height h and width w has height w
\* and width h, its cell (r, c) is the grid's cell (c, r), and the grid
\* itself stays as it was.
C23_TransposeSwapsRowsAndColumns ==
    (grid_call[1] = "transpose" /\ Valid(grid_before)) =>
        LET h == Len(grid_before)
            w == Len(grid_before[1])
            t == grid_ret.val
        IN  /\ grid = grid_before
            /\ Len(t) = w
            /\ \A r \in 1..w :
                /\ Len(t[r]) = h
                /\ \A c \in 1..h : t[r][c] = grid_before[c][r]
            /\ \A k \in 0..(w - 1) : Some(t[k + 1]) = get_column(grid_before, k)

\* a square grid that differs from its mirror image in the diagonal has been
\* transposed
C23_Witness ==
    /\ grid_call[1] = "transpose"
    /\ Len(grid) = 2
    /\ Len(grid[1]) = 2
    /\ grid[1][2] # grid[2][1]
    /\ grid_ret.tag = "Value"

\* C24: on a valid grid update_row(i, data) with i < height and data as long
\* as the grid is wide returns Ok, row i is data and the other rows are
\* unchanged; update_column(i, data) with i < width and data as long as the
\* grid is high returns Ok, cell i of row k is data[k] and the cells outside
\* column i are unchanged.
C24_LineWritesReplaceOneLine ==
    (grid_call[1] \in {"update_row", "update_column"} /\ Valid(grid_before)) =>
        LET i == grid_call[2]
            data == grid_call[3]
            h == Len(grid_before)
            w == Len(grid_before[1])
        IN  /\ (grid_call[1] = "update_row" /\ i < h /\ Len(data) = w) =>
                /\ grid_ret = Ok(Unit)
                /\ Len(grid) = h
                /\ get_row(grid, i) = Some(data)
                /\ \A r \in 1..h : r # i + 1 => grid[r] = grid_before[r]
            /\ (grid_call[1] = "update_column" /\ i < w /\ Len(data) = h) =>
                /\ grid_ret = Ok(Unit)
                /\ Len(grid) = h
                /\ get_column(grid, i) = Some(data)
                /\ \A r \in 1..h :
                    /\ Len(grid[r]) = w
                    /\ \A c \in 1..w :
                          grid[r][c] = IF c = i + 1 THEN data[r]
                                       ELSE grid_before[r][c]

\* update_column has written a column of two different cells into a grid
\* two cells wide
C24_Witness ==
    /\ grid_call[1] = "update_column"
    /\ Valid(grid_before)
    /\ Len(grid_before[1]) = 2
    /\ grid_ret = Ok(Unit)
    /\ Len(grid_call[3]) = 2
    /\ grid_call[3][1] # grid_call[3][2]
    /\ grid # grid_before

(***************************************************************************)
(* Claims about play                                                       *)
(***************************************************************************)
\* the largest rank a board of this many cells is said to hold
RankLimit(b) == Len(b) * Len(b) + 1

\* C18: in every state of play a swipe returns Ok: a merge that changed the
\* board left an empty cell, so the insertion that follows it cannot fail.
C18_SwipesNeverFail ==
    event \in Swipes =>
        /\ game_state.tag = "Ok"
        /\ LET after_merge == MergedBefore
           IN  after_merge # game_before.board => HasEmptyCell(after_merge)

\* a swipe on a board without an empty cell has merged two tiles and a new
\* tile has been inserted
C18_Witness ==
    /\ event \in Swipes
    /\ ~HasEmptyCell(game_before.board)
    /\ game_state.tag = "Ok"
    /\ game_state.val.board # game_before.board
    /\ Cardinality(TileCells(game_state.val.board))
         = Cardinality(TileCells(game_before.board))

\* C19: in every state of play every rank is at most the number of cells
\* plus one, so tile + 1 is below 2^8 and is not the empty cell's 0.
C19_NoRankOverflow ==
    /\ game_state # PANIC
    /\ game_state.tag = "Ok" =>
        LET b == game_state.val.board
        IN  \A p \in Cells(b) :
                /\ b[p[1]][p[2]] <= RankLimit(b)
                /\ tile_plus_one(b[p[1]][p[2]]) = b[p[1]][p[2]] + 1

\* a merge in play has made a tile of the largest rank the small board allows
C19_Witness ==
    /\ event \in Swipes
    /\ game_state.tag = "Ok"
    /\ LET b == game_state.val.board
       IN  /\ \E p \in Cells(b) : b[p[1]][p[2]] = RankLimit(b)
           /\ \A p \in Cells(game_before.board) :
                  game_before.board[p[1]][p[2]] < RankLimit(b)

RECURSIVE Pow2(_)
Pow2(n) == IF n = 0 THEN 1 ELSE 2 * Pow2(n - 1)

RECURSIVE LineSum(_)
\* the sum of 2^rank over the tiles of a line
LineSum(line) ==
    IF line = <<>> THEN 0
    ELSE (IF line[1] = 0 THEN 0 ELSE Pow2(line[1])) + LineSum(Tail(line))

RECURSIVE TileSum(_)
\* the sum of 2^rank over the tiles of a board
TileSum(b) == IF b = <<>> THEN 0 ELSE LineSum(b[1]) + TileSum(Tail(b))

\* C20: a directional merge keeps the sum of 2^rank over the tiles and does
\* not add tiles; a swipe handled by handle_event raises that sum by 2 or by
\* 4 when its merge changed the board and leaves it as it was otherwise.
C20_ValueConservation ==
    /\ board_op \in MergeOps =>
        /\ TileSum(board) = TileSum(board_before)
        /\ Cardinality(TileCells(board)) <= Cardinality(TileCells(board_before))
    /\ (event \in Swipes /\ game_state.tag = "Ok") =>
        LET before == game_before.board
            after_merge == MergedBefore
            after == game_state.val.board
        IN  /\ TileSum(after_merge) = TileSum(before)
            /\ Cardinality(TileCells(after_merge))
                 <= Cardinality(TileCells(before))
            /\ IF after_merge # before
               THEN TileSum(after) - TileSum(before) \in {2, 4}
               ELSE TileSum(after) = TileSum(before)

\* a swipe in play has merged two pairs of tiles and a 4 has been inserted
C20_Witness ==
    /\ event \in Swipes
    /\ game_state.tag = "Ok"
    /\ Cardinality(TileCells(MergedBefore))
         = Cardinality(TileCells(game_before.board)) - 2
    /\ TileSum(game_state.val.board) = TileSum(game_before.board) + 4

\* no empty cell and no two equal tiles next to each other in a row or column
DeadBoard(b) ==
    /\ ~HasEmptyCell(b)
    /\ \A r \in 1..Len(b) : \A c \in 1..(Len(b[r]) - 1) : b[r][c] # b[r][c + 1]
    /\ \A r \in 1..(Len(b) - 1) : \A c \in 1..Len(b[r]) : b[r][c] # b[r + 1][c]

\* C21: on a board without an empty cell and without two equal neighbours a
\* swipe returns Ok with the Game that was passed in; no state of play is an
\* error or has is_game_over set or a game_over_reason; NewGame leaves the
\* dead board.
C21_DeadBoardStutters ==
    /\ game_state.tag = "Ok"
    /\ game_state.val.is_game_over = FALSE
    /\ game_state.val.game_over_reason = None
    /\ (event \in Swipes /\ DeadBoard(game_before.board)) =>
            game_state = Ok(game_before)
    /\ (event = "NewGame" /\ DeadBoard(game_before.board)) =>
            /\ ~DeadBoard(game_state.val.board)
            /\ Cardinality(TileCells(game_state.val.board)) = 1

\* a swipe has been handled on a dead board
C21_Witness ==
    /\ event \in Swipes
    /\ DeadBoard(game_before.board)
    /\ game_state = Ok(game_before)

(***************************************************************************)
(* Further claims about Board                                              *)
(***************************************************************************)
\* result.len() after result.push(last_seen_tile), before the padding
PushedBeforePadding(t) ==
    Len(merge_tiles_loop(t, 2, t[1], <<>>).result) + 1

\* C26: for a non-empty line merge_tiles has pushed at most as many tiles as
\* the line is long when it pads, so tiles.len() - result.len() does not
\* underflow and the line returned is as long as the line passed in.
C26_PaddingNeverUnderflows ==
    (line_pc \in {"merged", "remerged"} /\ tiles # <<>>) =>
        /\ PushedBeforePadding(tiles) <= Len(tiles)
        /\ merged # PANIC_LINE
        /\ Len(merged) = Len(tiles)
        /\ \A i \in 1..Len(merged) :
              i > PushedBeforePadding(tiles) => merged[i] = 0

\* a line of the greatest length without an empty cell and without a pair has
\* been merged: as many tiles pushed as the line is long, no padding
C26_Witness ==
    /\ line_pc = "merged"
    /\ Len(tiles) = MaxLen
    /\ PushedBeforePadding(tiles) = Len(tiles)
    /\ merged = tiles

\* C25: a board of side size >= 1 stays square with that side through every
\* merge and every add_random_tile, no call panics on an unwrap, and every
\* cell holds 0 or a rank of at least 1.
C25_BoardDimensionsAreFixed ==
    board_op # "none" =>
        /\ board # PANIC_GRID
        /\ board_op = "add_random_tile" => board_ret.tag # "Panic"
        /\ Len(board) = Len(board_before)
        /\ Len(board) >= 1
        /\ \A r \in 1..Len(board) :
            /\ Len(board[r]) = Len(board)
            /\ \A c \in 1..Len(board) :
                  board[r][c] = 0 \/ board[r][c] \in 1..(TileTypeModulus - 1)

\* a merge has moved and merged tiles on a board of the largest side
C25_Witness ==
    /\ board_op \in MergeOps
    /\ Len(board_before) = MaxSize
    /\ board # board_before
    /\ Cardinality(TileCells(board)) < Cardinality(TileCells(board_before))

\* line i of a board in the direction of a merge
LineOf(op, b, i) == IF op \in RowMerges THEN Row(b, i) ELSE Col(b, i)

\* what a merge makes of one line on its own
MergeLine(op, line) ==
    IF op \in ReversedMerges THEN Reverse(merge_tiles(Reverse(line)))
    ELSE merge_tiles(line)

\* C22: whatever the order in which the lines of a directional merge are
\* read and written back, a line that has been written is the merge of that
\* line of the old board alone, a line that has not is what it was, and once
\* every line is written the board is the one the loop over ascending
\* indices makes.
C22_LinesAreMergedIndependently ==
    lines_pc # <<>> =>
        /\ board # PANIC_GRID
        /\ \A i \in 1..Len(lines_pc) :
              LineOf(board_op, board, i) =
                  IF lines_pc[i] = "done"
                  THEN MergeLine(board_op, LineOf(board_op, board_before, i))
                  ELSE LineOf(board_op, board_before, i)
        /\ (\A i \in 1..Len(lines_pc) : lines_pc[i] = "done") =>
              board = ApplyMerge(board_op, board_before)

\* the second line has been merged and written back, and has changed, while
\* the first line has been read and not yet written
C22_Witness ==
    /\ Len(lines_pc) = 2
    /\ lines_pc[1] = "held"
    /\ lines_pc[2] = "done"
    /\ LineOf(board_op, board, 2) # LineOf(board_op, board_before, 2)
    /\ HasEqualNeighbours(lines_held[1])

=============================================================================
